---- MODULE Spec2Model ----
(***************************************************************************)
(* Model of the viewport map page (web/src/app/map/page.tsx), the home     *)
(* location store (web/src/lib/home.ts) with its subscribers, the home     *)
(* button, the marker layout of SchoolMap, the catchment circle of a       *)
(* clicked school, the debounced bounds-fetch schedule, the Grammar and    *)
(* Independent toggles, the name search of the ?q= path and the            *)
(* fixed-radius page (web/src/app/layout.tsx).                             *)
(*                                                                         *)
(* Conventions                                                             *)
(*  - a nullable value (T | null | undefined) is a set with at most one    *)
(*    element: {} is null/undefined, {v} is the value v;                   *)
(*  - time is in milliseconds and advances in steps of TickMs;             *)
(*  - a distance in km with two decimals is kept as an integer number of   *)
(*    hundredths of a km (69.98 km is 6998);                               *)
(*  - haversineKm is tabulated, in units of 1e-4 km rounded down, from the *)
(*    formula of home.ts evaluated on the grid of coordinates the model    *)
(*    uses.                                                                *)
(***************************************************************************)
EXTENDS Integers, Sequences, FiniteSets, TLC

\* ------------------------------------------------------------------ bounds
MaxTime == 600
TickMs == 150
MaxEvents == 3
MaxFetches == 2
MaxLen == 3
MaxClicks == 2

\* --------------------------------------------------------- program constants
DEBOUNCE_MS == 300
TOO_MANY == 1500
\* the offset of co-located markers, 0.00008 degrees, in units of 1e-5 degree
MARKER_OFFSET == 8

\* ------------------------------------------------------------ nullable values
None == {}
Some(v) == {v}
Val(o) == CHOOSE v \in o : TRUE

\* ------------------------------------------------------------------- home.ts
Abs(x) == IF x < 0 THEN -x ELSE x

\* R * 2 * atan2(sqrt(a), sqrt(1-a)) in 1e-4 km, rounded down, keyed by
\* <<lat1, lat2, |lng2 - lng1|>> (the formula depends on the longitudes only
\* through sin(dLng/2)^2)
HavTable ==
  (<<0, 0, 0>> :> 0 @@ <<0, 0, 1>> :> 1111949 @@ <<0, 0, 2>> :> 2223898 @@
   <<0, 51, 0>> :> 56709412 @@ <<0, 51, 1>> :> 56717269 @@ <<0, 51, 2>> :> 56740834 @@
   <<0, 52, 0>> :> 57821361 @@ <<0, 52, 1>> :> 57828942 @@ <<0, 52, 2>> :> 57851678 @@
   <<51, 0, 0>> :> 56709412 @@ <<51, 0, 1>> :> 56717269 @@ <<51, 0, 2>> :> 56740834 @@
   <<51, 51, 0>> :> 0 @@ <<51, 51, 1>> :> 699766 @@ <<51, 51, 2>> :> 1399501 @@
   <<51, 52, 0>> :> 1111949 @@ <<51, 52, 1>> :> 1309771 @@ <<51, 52, 2>> :> 1775562 @@
   <<52, 0, 0>> :> 57821361 @@ <<52, 0, 1>> :> 57828942 @@ <<52, 0, 2>> :> 57851678 @@
   <<52, 51, 0>> :> 1111949 @@ <<52, 51, 1>> :> 1309771 @@ <<52, 51, 2>> :> 1775562 @@
   <<52, 52, 0>> :> 0 @@ <<52, 52, 1>> :> 684578 @@ <<52, 52, 2>> :> 1369125)

haversineKm(lat1, lng1, lat2, lng2) == HavTable[<<lat1, lat2, Abs(lng2 - lng1)>>]

\* Math.round(x * 100) for x >= 0 given in 1e-4 km: hundredths of a km
RoundHundredths(e4) == (e4 + 50) \div 100

\* the home locations a postcode lookup can produce: the home button stores
\* a result only when both its coordinates are truthy, so neither is 0
Home1 == [postcode |-> "H1", latitude |-> 51, longitude |-> 1]
Home2 == [postcode |-> "H2", latitude |-> 52, longitude |-> 1]
Homes == {Home1, Home2}

\* ------------------------------------------------------------------- records
\* School, reduced to the fields the page logic reads
School(u, lat, lng) ==
  [urn |-> u, latitude |-> lat, longitude |-> lng, distance_from_home |-> None,
   catchment |-> None, type |-> None, admissions_policy |-> None]

\* what the remote API holds: two schools at the same distance from either
\* home (the second on the meridian, longitude 0), one without a latitude,
\* one at Home2, one without a longitude, and two more at the very
\* coordinates of the first
SchoolDB ==
  <<School(1, Some(51), Some(2)),
    School(2, Some(51), Some(0)),
    School(3, None, Some(1)),
    School(4, Some(52), Some(1)),
    School(5, Some(51), None),
    School(6, Some(51), Some(2)),
    School(7, Some(51), Some(2))>>

\* ----------------------------------------------------- enrichWithHomeDistance
\* the comparator of the sort: (a.d ?? Infinity) - (b.d ?? Infinity), as the
\* sign Array.prototype.sort acts on; Infinity - Infinity is NaN, which sort
\* treats as +0
SortCompare(a, b) ==
  IF a.distance_from_home = None /\ b.distance_from_home = None THEN 0
  ELSE IF a.distance_from_home = None THEN 1
  ELSE IF b.distance_from_home = None THEN -1
  ELSE IF Val(a.distance_from_home) < Val(b.distance_from_home) THEN -1
  ELSE IF Val(a.distance_from_home) > Val(b.distance_from_home) THEN 1
  ELSE 0

\* an unstable sort: x goes before the elements it compares equal to
RECURSIVE InsertSorted_Unstable(_, _)
InsertSorted_Unstable(x, s) ==
  IF s = <<>> THEN <<x>>
  ELSE IF SortCompare(Head(s), x) < 0
         THEN <<Head(s)>> \o InsertSorted_Unstable(x, Tail(s))
  ELSE <<x>> \o s

\* Array.prototype.sort is stable: x goes after every element that does not
\* compare greater than it
RECURSIVE InsertSorted(_, _)
InsertSorted(x, s) ==
  IF s = <<>> THEN <<x>>
  ELSE IF SortCompare(Head(s), x) <= 0 THEN <<Head(s)>> \o InsertSorted(x, Tail(s))
  ELSE <<x>> \o s

RECURSIVE StableSort(_)
StableSort(s) ==
  IF s = <<>> THEN <<>>
  ELSE InsertSorted(s[Len(s)], StableSort(SubSeq(s, 1, Len(s) - 1)))

\* a missing coordinate in arithmetic is 0
OrZero(o) == IF o = None THEN 0 ELSE Val(o)

\* the guard written with && : a record missing one coordinate only gets a
\* distance, computed with 0 for the missing one
EnrichOne_AndGuard(s, h) ==
  IF s.latitude = None /\ s.longitude = None THEN s
  ELSE [s EXCEPT !.distance_from_home =
          Some(RoundHundredths(haversineKm(h.latitude, h.longitude,
                                           OrZero(s.latitude), OrZero(s.longitude))))]

\* the callback of data.map(...)
EnrichOne(s, h) ==
  IF s.latitude = None \/ s.longitude = None THEN s
  ELSE [s EXCEPT !.distance_from_home =
          Some(RoundHundredths(haversineKm(h.latitude, h.longitude,
                                           Val(s.latitude), Val(s.longitude))))]

\* without a home the pass still runs, and strips the distances
enrichWithHomeDistance_Strips(data, h) ==
  IF h = None
    THEN [i \in 1..Len(data) |-> [data[i] EXCEPT !.distance_from_home = None]]
  ELSE StableSort([i \in 1..Len(data) |-> EnrichOne(data[i], Val(h))])

\* h is the result of getHome() at the time of the call
enrichWithHomeDistance(data, h) ==
  IF h = None THEN data
  ELSE StableSort([i \in 1..Len(data) |-> EnrichOne(data[i], Val(h))])


\* ------------------------------------------------------------------ inputs
\* the option values of the phase and rating selects (Filters.tsx), reduced
\* to the empty value and one other
Phases == {"", "Primary"}
Ratings == {"", "Good"}

\* the viewports the map reports
Bounds1 == [south |-> 51, north |-> 52, west |-> -1, east |-> 0]
Bounds2 == [south |-> 51, north |-> 52, west |-> 0, east |-> 1]
Viewports == {Bounds1, Bounds2}

\* the result pages searchByViewport answers with
List1 == <<SchoolDB[4], SchoolDB[1], SchoolDB[2]>>
List2 == <<SchoolDB[3], SchoolDB[2]>>
BoundsResponses ==
  {[total |-> 200, schools |-> List1], [total |-> 1500, schools |-> List2],
   [total |-> 1501, schools |-> List1]}
NoResponse == [total |-> 0, schools |-> <<>>]

\* ------------------------------------------------------------------- state
VARIABLES
  storage,            \* localStorage[STORAGE_KEY]: the stored home, nullable
  schools,            \* useState: the fetched list
  loading,            \* useState
  phase,              \* useState
  rating,             \* useState
  tooManySchools,     \* useState
  boundsRef,          \* useRef: the last viewport, nullable
  debounceTimer,      \* useRef: handle of the last timer set, 0 for null
  didMount,           \* useRef
  timers,             \* the browser's pending timeouts
  inflight,           \* issue numbers of the bounds requests not yet answered
  now,                \* the clock, ms
  nextToken,          \* history: issue number of the next request
  lastRequest,        \* history: the last request sent, nullable
  lastApplied,        \* history: issue number of the last response applied
  lastResp,           \* history: the last response applied
  evCount,            \* history: viewport events so far
  lastEventAt,        \* history: time of the last viewport event
  burstFetches,       \* history: timer fetches since the burst began
  subscribers,        \* the components, other than the map page, whose
                      \* "home-changed" listener is registered
  homeState,          \* useState home of each component, nullable
  notified,           \* history: runs of each component's listener during
                      \* the last setHome or clearHome; None where the
                      \* specification does not record it
  lastWrite,          \* history: the home of the last setHome, None after
                      \* a clearHome
  hbError,            \* HomeButton useState error
  hbLoading,          \* HomeButton useState loading: a lookup is in flight
  lastLookup,         \* history: how the last lookup ended, nullable
  frSchools,          \* fixed-radius page useState schools
  frIssued,           \* history: fetches the fixed-radius page has sent
  selectedSchool,     \* useState: the detail shown in the panel, nullable
  catchmentCircle,    \* useState: the circle drawn, nullable
  detailInflight,     \* issue numbers of the detail requests not answered
  dClicks,            \* history: the urn of every marker click, in order
  dOk,                \* history: issue numbers of the details applied
  dCleared,           \* history: "Back to list" was pressed after the last
                      \* marker click
  showGrammar,        \* useState
  showIndependent,    \* useState
  searchInflight,     \* the searchParams effect sent a name search that is
                      \* not yet answered
  frOpened,           \* fixed-radius page: the search parameters it was
                      \* opened with: "latlng", "q" or "none"
  frCenter,           \* fixed-radius page useState center
  frFilters,          \* fixed-radius page useState phase, rating, radius
  frLoading,          \* fixed-radius page useState loading
  frInflight,         \* issue numbers of its requests not yet answered
  frLastRequest,      \* history: the last request it sent, nullable
  frSearches,         \* the name searches it has in flight: for each the
                      \* filters loadSchools closed over when it was sent
  frChanges           \* history: number of filter changes made

vars == <<storage, schools, loading, phase, rating, tooManySchools, boundsRef,
          debounceTimer, didMount, timers, inflight, now, nextToken,
          lastRequest, lastApplied, lastResp, evCount, lastEventAt,
          burstFetches, subscribers, homeState, notified, lastWrite, hbError,
          hbLoading, lastLookup, frSchools, frIssued, selectedSchool,
          catchmentCircle, detailInflight, dClicks, dOk, dCleared,
          showGrammar, showIndependent, searchInflight, frOpened, frCenter,
          frFilters, frLoading, frInflight, frLastRequest, frSearches,
          frChanges>>

pageVars == <<schools, loading, phase, rating, tooManySchools, boundsRef,
              debounceTimer, didMount>>
schedVars == <<timers, inflight, nextToken, lastRequest>>
histVars == <<lastApplied, lastResp, evCount, lastEventAt,
              burstFetches>>
storeVars == <<subscribers, homeState, notified, lastWrite>>
buttonVars == <<hbError, hbLoading, lastLookup>>
radiusVars == <<frSchools, frIssued>>
detailVars == <<selectedSchool, catchmentCircle, detailInflight, dClicks, dOk,
                dCleared>>
searchVars == <<searchInflight>>
fixedVars == <<frOpened, frCenter, frFilters, frLoading, frInflight,
               frLastRequest, frSearches, frChanges>>
extraVars == <<showGrammar, showIndependent, searchVars, fixedVars>>
otherVars == <<storeVars, buttonVars, radiusVars, detailVars, extraVars>>

\* ------------------------------------------------------------------ home.ts
\* JSON.stringify of a HomeLocation: the text, kept as the values of its
\* three members in the order they are written
JSONStringify(home) == <<home.postcode, home.latitude, home.longitude>>

\* JSON.parse losing the text of the postcode
JSONParse_NoPostcode(raw) ==
  [postcode |-> "", latitude |-> raw[2], longitude |-> raw[3]]

\* JSON.parse(raw) as HomeLocation
JSONParse(raw) ==
  [postcode |-> raw[1], latitude |-> raw[2], longitude |-> raw[3]]

\* in the browser: null when the key is absent, the parsed item otherwise
getHome == IF storage = None THEN None ELSE Some(JSONParse(Val(storage)))

\* the components that listen to "home-changed"
Components == {"map", "button", "radius", "detail"}

\* the listener of c is registered: the map page registers it when it mounts
Subscribed(c) == IF c = "map" THEN didMount ELSE c \in subscribers

\* --------------------------------------------------------------- operations
Urns(list) == [i \in 1..Len(list) |-> list[i].urn]

\* phase || undefined
OrUndefined(s) == IF s = "" THEN None ELSE Some(s)

\* the request loadSchoolsForBounds sends; ph and rt are the phase and rating
\* of the render whose loadSchoolsForBounds is called
BoundsRequest(bounds, ph, rt) ==
  [id |-> nextToken, bounds |-> bounds, phase |-> OrUndefined(ph),
   rating |-> OrUndefined(rt)]

\* loadSchoolsForBounds up to its await: setLoading(true), send the request
LoadSchoolsForBounds(bounds, ph, rt) ==
  /\ loading' = TRUE
  /\ inflight' = inflight \cup {nextToken}
  /\ lastRequest' = Some(BoundsRequest(bounds, ph, rt))
  /\ nextToken' = nextToken + 1

\* the store as the components that are mounted have read it
StoreInit ==
  /\ subscribers = {"button"}
  /\ homeState = [c \in Components |-> IF Subscribed(c) THEN getHome ELSE None]
  /\ notified = None
  /\ lastWrite = getHome

\* HomeButton after its first render
HomeButtonInit ==
  /\ hbError = ""
  /\ hbLoading = FALSE
  /\ lastLookup = None

\* the fixed-radius page not mounted
RadiusPageInit ==
  /\ frSchools = <<>>
  /\ frIssued = 0

\* both classifications shown
TogglesInit ==
  /\ showGrammar = TRUE
  /\ showIndependent = TRUE

\* the page was opened without ?q=: no name search was sent
SearchInit == searchInflight = FALSE

\* layout.tsx: Default center: London, in 1/10000 degree
DEFAULT_LAT == 515074
DEFAULT_LNG == -1278
DefaultCenter == <<DEFAULT_LAT, DEFAULT_LNG>>

\* useState(5): the radius in km
DEFAULT_RADIUS == 5

\* the state of the fixed-radius page before its effects run; the page is
\* followed in SpecRadius
FixedInit ==
  /\ frOpened = "none"
  /\ frCenter = DefaultCenter
  /\ frFilters = [phase |-> "", rating |-> "", radius |-> DEFAULT_RADIUS]
  /\ frLoading = FALSE
  /\ frInflight = {}
  /\ frLastRequest = None
  /\ frSearches = <<>>
  /\ frChanges = 0

\* no school selected, no circle, no detail request sent
DetailInit ==
  /\ selectedSchool = None
  /\ catchmentCircle = None
  /\ detailInflight = {}
  /\ dClicks = <<>>
  /\ dOk = {}
  /\ dCleared = FALSE

Init ==
  /\ storage \in {None} \cup {Some(JSONStringify(h)) : h \in Homes}
  /\ schools = <<>>
  /\ loading = FALSE
  /\ phase = ""
  /\ rating = ""
  /\ tooManySchools = FALSE
  /\ boundsRef = None
  /\ debounceTimer = 0
  /\ didMount = FALSE
  /\ timers = {}
  /\ inflight = {}
  /\ now = 0
  /\ nextToken = 1
  /\ lastRequest = None
  /\ lastApplied = 0
  /\ lastResp = NoResponse
  /\ evCount = 0
  /\ lastEventAt = 0
  /\ burstFetches = 0
  /\ StoreInit
  /\ HomeButtonInit
  /\ RadiusPageInit
  /\ DetailInit
  /\ TogglesInit
  /\ SearchInit
  /\ FixedInit

\* clearTimeout forgotten: the earlier timeout stays pending
clearTimeout_Forgotten(handle) == timers

\* clearTimeout(handle): the pending timeouts without that one
clearTimeout(handle) == {t \in timers : t.id # handle}

\* the callback of the first render kept (handleBoundsChange never renewed)
TimeoutCallback_FirstRender(bounds) == [bounds |-> bounds, phase |-> "", rating |-> ""]

\* what the callback () => loadSchoolsForBounds(bounds) closes over: the
\* bounds of the event, and the phase and rating of the render whose
\* handleBoundsChange BoundsWatcher called through cbRef
TimeoutCallback(bounds) == [bounds |-> bounds, phase |-> phase, rating |-> rating]

\* the threshold taken inclusively
TooMany_Inclusive(total) == total >= TOO_MANY

\* if (result.total > 1500)
TooMany(total) == total > TOO_MANY

\* first run of the effects: the home effect reads the store and registers
\* the listener, the filter effect only sets didMount
Mount ==
  /\ ~didMount
  /\ didMount' = TRUE
  /\ homeState' = [homeState EXCEPT !["map"] = getHome]
  /\ UNCHANGED <<storage, schools, loading, phase, rating, tooManySchools,
                 boundsRef, debounceTimer, schedVars, now, histVars,
                 subscribers, notified, lastWrite, buttonVars, radiusVars,
                 extraVars,
                 detailVars>>

\* handleBoundsChange, called by BoundsWatcher through cbRef with the
\* handler of the current render: the timeout callback closes over this
\* render's loadSchoolsForBounds, hence over its phase and rating
handleBoundsChange(bounds) ==
  /\ didMount
  /\ evCount < MaxEvents
  /\ now + DEBOUNCE_MS <= MaxTime
  /\ boundsRef' = Some(bounds)
  /\ timers' = clearTimeout(debounceTimer)
                 \cup {[id |-> evCount + 1, cb |-> TimeoutCallback(bounds),
                        due |-> now + DEBOUNCE_MS]}
  /\ debounceTimer' = evCount + 1
  /\ evCount' = evCount + 1
  /\ lastEventAt' = now
  /\ burstFetches' = IF evCount > 0 /\ now - lastEventAt < DEBOUNCE_MS
                       THEN burstFetches ELSE 0
  /\ UNCHANGED <<storage, schools, loading, phase, rating, tooManySchools,
                 didMount, inflight, nextToken, lastRequest, now, lastApplied,
                 lastResp,
                 otherVars>>

\* the timeout callback: loadSchoolsForBounds(bounds) of the render that set
\* the timer
TimerExpires(t) ==
  /\ t \in timers
  /\ now >= t.due
  /\ nextToken <= MaxFetches
  /\ timers' = timers \ {t}
  /\ LoadSchoolsForBounds(t.cb.bounds, t.cb.phase, t.cb.rating)
  /\ burstFetches' = burstFetches + 1
  /\ UNCHANGED <<storage, schools, phase, rating, tooManySchools, boundsRef,
                 debounceTimer, didMount, now, lastApplied, lastResp,
                 evCount, lastEventAt,
                 otherVars>>

\* the effect going through the debounce instead of fetching at once
FilterEffect_Debounced(ph, rt) ==
  UNCHANGED <<loading, inflight, nextToken, lastRequest>>

\* the effect on [phase, rating], after the render with the new values
FilterEffect(ph, rt) ==
  IF boundsRef # None
    THEN /\ nextToken <= MaxFetches
         /\ LoadSchoolsForBounds(Val(boundsRef), ph, rt)
    ELSE UNCHANGED <<loading, inflight, nextToken, lastRequest>>

SetPhase(p) ==
  /\ didMount
  /\ p # phase
  /\ phase' = p
  /\ FilterEffect(p, rating)
  /\ UNCHANGED <<storage, schools, rating, tooManySchools, boundsRef,
                 debounceTimer, didMount, timers, now, histVars,
                 otherVars>>

SetRating(r) ==
  /\ didMount
  /\ r # rating
  /\ rating' = r
  /\ FilterEffect(phase, r)
  /\ UNCHANGED <<storage, schools, phase, tooManySchools, boundsRef,
                 debounceTimer, didMount, timers, now, histVars,
                 otherVars>>

\* loadSchoolsForBounds after its await, the request fulfilled
FetchSucceeds(req, resp) ==
  /\ req \in inflight
  /\ inflight' = inflight \ {req}
  /\ IF TooMany(resp.total)
       THEN /\ tooManySchools' = TRUE
            /\ schools' = <<>>
       ELSE /\ tooManySchools' = FALSE
            /\ schools' = enrichWithHomeDistance(resp.schools, getHome)
  /\ loading' = FALSE
  /\ lastApplied' = req
  /\ lastResp' = resp
  /\ UNCHANGED <<storage, phase, rating, boundsRef, debounceTimer, didMount,
                 timers, nextToken, lastRequest, now, evCount, lastEventAt,
                 burstFetches,
                 otherVars>>

\* the catch block clearing the list
FetchFails_ClearsList(req) ==
  /\ req \in inflight
  /\ inflight' = inflight \ {req}
  /\ loading' = FALSE
  /\ schools' = <<>>
  /\ UNCHANGED <<storage, phase, rating, tooManySchools, boundsRef,
                 debounceTimer, didMount, timers, nextToken, lastRequest, now,
                 lastApplied, lastResp, evCount, lastEventAt, burstFetches,
                 otherVars>>

\* the request rejected and no finally block: loading stays as it is
FetchFails_KeepsLoading(req) ==
  /\ req \in inflight
  /\ inflight' = inflight \ {req}
  /\ UNCHANGED <<storage, schools, loading, phase, rating, tooManySchools,
                 boundsRef, debounceTimer, didMount, timers, nextToken,
                 lastRequest, now, lastApplied, lastResp, evCount,
                 lastEventAt, burstFetches, otherVars>>

\* loadSchoolsForBounds after its await, the request rejected
FetchFails(req) ==
  /\ req \in inflight
  /\ inflight' = inflight \ {req}
  /\ loading' = FALSE
  /\ UNCHANGED <<storage, schools, phase, rating, tooManySchools, boundsRef,
                 debounceTimer, didMount, timers, nextToken, lastRequest, now,
                 lastApplied, lastResp, evCount, lastEventAt, burstFetches,
                 otherVars>>

\* the "home-changed" listener of the page, registered by the mount effect
HomeChangedHandler(h) ==
  schools' = IF didMount THEN enrichWithHomeDistance(schools, h) ELSE schools

\* the listener loading the list again instead of enriching the one it holds
RadiusHomeChangedHandler_Refetch(h) ==
  /\ frSchools' = frSchools
  /\ frIssued' = IF Subscribed("radius") THEN frIssued + 1 ELSE frIssued

\* the listener of the fixed-radius page
RadiusHomeChangedHandler(h) ==
  /\ frSchools' = IF Subscribed("radius")
                    THEN enrichWithHomeDistance(frSchools, h) ELSE frSchools
  /\ frIssued' = frIssued

\* window.dispatchEvent(new Event("home-changed")): every registered listener
\* runs once, before dispatchEvent returns; h is what getHome() returns to
\* the listeners
dispatchEvent(h) ==
  /\ HomeChangedHandler(h)
  /\ RadiusHomeChangedHandler(h)
  /\ homeState' = [c \in Components |-> IF Subscribed(c) THEN h ELSE homeState[c]]
  /\ notified' = IF notified = None THEN None
                  ELSE Some([c \in Components |-> IF Subscribed(c) THEN 1 ELSE 0])

\* the event dispatched before the item is written
setHome_NotifyFirst(home) ==
  /\ storage' = Some(JSONStringify(home))
  /\ dispatchEvent(getHome)
  /\ lastWrite' = Some(home)

setHome(home) ==
  /\ storage' = Some(JSONStringify(home))
  /\ dispatchEvent(getHome')
  /\ lastWrite' = Some(home)

clearHome ==
  /\ storage' = None
  /\ dispatchEvent(getHome')
  /\ lastWrite' = None

\* what setHome and clearHome leave alone
HomeFrame ==
  UNCHANGED <<loading, phase, rating, tooManySchools, boundsRef,
              debounceTimer, didMount, schedVars, now, histVars, subscribers,
              detailVars, extraVars>>

\* the home button stores the postcode result of a lookup; the lookup itself
\* is followed step by step in SpecHome
SetHomeCalled(home) ==
  /\ setHome(home)
  /\ HomeFrame
  /\ UNCHANGED buttonVars

\* the Remove button of the home button, shown while it holds a home
handleClear ==
  /\ homeState["button"] # None
  /\ clearHome
  /\ HomeFrame
  /\ UNCHANGED buttonVars

Tick ==
  /\ now + TickMs <= MaxTime
  /\ now' = now + TickMs
  /\ UNCHANGED <<storage, pageVars, schedVars, histVars, otherVars>>

Next ==
  \/ Mount
  \/ \E b \in Viewports : handleBoundsChange(b)
  \/ \E t \in timers : TimerExpires(t)
  \/ \E p \in Phases : SetPhase(p)
  \/ \E r \in Ratings : SetRating(r)
  \/ \E req \in inflight, resp \in BoundsResponses : FetchSucceeds(req, resp)
  \/ \E req \in inflight : FetchFails(req)
  \/ \E h \in Homes : SetHomeCalled(h)
  \/ handleClear
  \/ Tick

Spec == Init /\ [][Next]_vars

TypeOK ==
  /\ loading \in BOOLEAN
  /\ tooManySchools \in BOOLEAN
  /\ phase \in Phases
  /\ rating \in Ratings
  /\ Len(schools) <= Len(SchoolDB)


\* ---------------------------------------------------------- step predicates
\* a bounds request is sent in this step; NewRequest is that request
Issued == nextToken' = nextToken + 1
NewRequest == Val(lastRequest')
\* ... by the callback of a timeout, which leaves the pending ones
IssuedByTimer == Issued /\ \E t \in timers : timers' = timers \ {t}
\* a response is applied / a failure is handled in this step
Answered == \E req \in inflight : inflight' = inflight \ {req}
Applied == Answered /\ lastApplied' # lastApplied
Failed == Answered /\ lastApplied' = lastApplied
FilterChanged == phase' # phase \/ rating' # rating

\* ------------------------------------------------------------------- claims

\* C1: once the response of a later request has been applied, the response
\* of an earlier request is never applied: the issue numbers of the applied
\* responses never decrease.
C1_StaleResponseNeverApplied == [][lastApplied' >= lastApplied]_vars

\* C2: a burst of viewport events, each less than 300 ms after the previous
\* one, causes exactly one fetch by the debounce timer: it carries the bounds
\* of the last event, it is sent no earlier than 300 ms after the last event,
\* and none is sent for the bounds of an earlier event of the burst.
C2_OneFetchPerBurst ==
  [][/\ IssuedByTimer =>
          /\ NewRequest.bounds = Val(boundsRef)
          /\ now >= lastEventAt + DEBOUNCE_MS
          /\ burstFetches = 0
     /\ burstFetches' <= 1
     /\ (evCount' > 0 /\ timers' = {}) => burstFetches' = 1]_vars

\* three events came, the last after the first and less than 300 ms after
\* it; the one request sent so far is the one of the timer, sent 300 ms
\* after the last event with its bounds
C2_Witness ==
  /\ evCount = 3
  /\ lastEventAt > 0
  /\ lastEventAt < DEBOUNCE_MS
  /\ burstFetches = 1
  /\ timers = {}
  /\ nextToken = 2
  /\ phase = "" /\ rating = ""
  /\ inflight = {1}
  /\ Val(lastRequest).bounds = Bounds2
  /\ Val(boundsRef) = Bounds2
  /\ now = lastEventAt + DEBOUNCE_MS

\* C3: the request the debounce timer sends on expiry carries the phase and
\* rating that are current at expiry.
C3_TimerFetchCarriesCurrentFilters ==
  [][IssuedByTimer =>
       /\ NewRequest.phase = OrUndefined(phase)
       /\ NewRequest.rating = OrUndefined(rating)]_vars


\* C4: after the mount, a change of phase or rating while a viewport is
\* known sends a bounds request in the same step, with no debounce delay,
\* carrying the last viewport and the new phase and rating.
C4_FilterChangeFetchesAtOnce ==
  [][(FilterChanged /\ boundsRef # None) =>
       /\ Issued
       /\ now' = now
       /\ timers' = timers
       /\ NewRequest.bounds = Val(boundsRef)
       /\ NewRequest.phase = OrUndefined(phase')
       /\ NewRequest.rating = OrUndefined(rating')]_vars

\* the timer of the only viewport event is still pending, inside its
\* debounce delay, and a request is in flight with the viewport of that
\* event and the changed phase: the filter effect sent it
C4_Witness ==
  /\ evCount = 1
  /\ timers # {}
  /\ phase = "Primary"
  /\ now < lastEventAt + DEBOUNCE_MS
  /\ inflight # {}
  /\ Val(lastRequest).bounds = Val(boundsRef)
  /\ Val(lastRequest).phase = Some("Primary")

\* C5: a change of phase or rating before any viewport event sends no
\* request and sets no timer; the request sent for the first viewport event
\* carries the values the filters were changed to: the callback set by that
\* event holds the phase and rating as changed so far, and the request a
\* callback sends carries what the callback holds.
C5_FilterChangeBeforeViewport ==
  [][/\ (FilterChanged /\ boundsRef = None) =>
          /\ ~Issued
          /\ inflight' = inflight
          /\ timers' = timers
     /\ (boundsRef = None /\ boundsRef' # None) =>
          /\ timers' # {}
          /\ \A t \in timers' : t.cb.phase = phase /\ t.cb.rating = rating
     /\ IssuedByTimer =>
          \A t \in timers \ timers' :
            /\ NewRequest.phase = OrUndefined(t.cb.phase)
            /\ NewRequest.rating = OrUndefined(t.cb.rating)]_vars

\* the filters were changed before the first viewport event and the one
\* request sent, by the timer of that event, is in flight with the changed
\* values
C5_Witness ==
  /\ evCount = 1
  /\ timers = {}
  /\ nextToken = 2
  /\ phase = "Primary" /\ rating = "Good"
  /\ inflight = {1}
  /\ Val(lastRequest).bounds = Val(boundsRef)
  /\ Val(lastRequest).phase = Some("Primary")
  /\ Val(lastRequest).rating = Some("Good")

\* the list holds the records of the response list, each once
SameRecords(list, resp) ==
  /\ Len(list) = Len(resp)
  /\ \A i \in 1..Len(resp) : \E j \in 1..Len(list) : list[j].urn = resp[i].urn

\* every record with both coordinates carries a distance
HasDistances(list) ==
  \A i \in 1..Len(list) :
    (list[i].latitude # None /\ list[i].longitude # None) =>
      list[i].distance_from_home # None

\* C6: when a response is applied, tooManySchools becomes true and the list
\* empty exactly when the total exceeds 1500 (1500 itself is displayed);
\* otherwise the flag becomes false, whatever it was, and the list becomes
\* the records of the response (in response order when no home is stored).
C6_TooManyIffTotalAbove1500 ==
  [][Applied =>
       /\ tooManySchools' = (lastResp'.total > 1500)
       /\ lastResp'.total > 1500 => schools' = <<>>
       /\ lastResp'.total <= 1500 =>
            /\ SameRecords(schools', lastResp'.schools)
            /\ storage # None => HasDistances(schools')
            /\ storage = None => schools' = lastResp'.schools]_vars

\* the response of the second request, of total 200, is applied after the
\* response of the first: its three records are displayed, the flag false
C6_Witness ==
  /\ lastApplied = 2
  /\ inflight = {}
  /\ lastResp.total = 200
  /\ ~tooManySchools
  /\ Len(schools) = 3

\* C7: when a bounds fetch fails, the list and the tooManySchools flag stay
\* as they were, loading becomes false, and nothing is retried: the step
\* sends no request and sets no timer, and every request is sent either by
\* the debounce timer of a viewport event or by a filter change.
C7_FailureKeepsDisplay ==
  [][/\ Failed =>
          /\ schools' = schools
          /\ tooManySchools' = tooManySchools
          /\ ~loading'
          /\ ~Issued
          /\ timers' = timers
     /\ Issued => (FilterChanged \/ \E t \in timers : timers' = timers \ {t})]_vars

\* two requests were sent, the first was applied and the second failed; the
\* list of the first is still displayed
C7_Witness ==
  /\ nextToken = 3
  /\ inflight = {}
  /\ lastApplied = 1
  /\ schools # <<>>
  /\ ~loading

\* the order of the last response applied
FetchOrder == IF lastResp.total > 1500 THEN <<>> ELSE Urns(lastResp.schools)

\* C8: when the home is cleared, the enrichment pass of the home-changed
\* handler leaves no record with a distance_from_home and puts the list back
\* in the order it was fetched in.
C8_ClearHomeDropsDistances ==
  [][(didMount /\ storage # None /\ storage' = None) =>
       /\ \A i \in 1..Len(schools') : schools'[i].distance_from_home = None
       /\ Urns(schools') = FetchOrder']_vars


\* ------------------------------------------- enrichment on its own (C9, C10)
\* the lists a response can hold: up to MaxLen distinct records of SchoolDB
ListsOfLen(n) ==
  {[i \in 1..n |-> SchoolDB[f[i]]] :
     f \in {g \in [1..n -> 1..Len(SchoolDB)] :
              \A i, j \in 1..n : i # j => g[i] # g[j]}}
RawLists == UNION {ListsOfLen(n) : n \in 0..MaxLen}

\* the page after its first fetch was answered while no home was stored
InitEnrich ==
  /\ storage = None
  /\ \E raw \in RawLists :
       /\ schools = raw
       /\ lastResp = [total |-> 200, schools |-> raw]
  /\ loading = FALSE
  /\ phase = ""
  /\ rating = ""
  /\ tooManySchools = FALSE
  /\ boundsRef = Some(Bounds1)
  /\ debounceTimer = 1
  /\ didMount = TRUE
  /\ timers = {}
  /\ inflight = {}
  /\ now = DEBOUNCE_MS
  /\ nextToken = 2
  /\ lastRequest = Some([id |-> 1, bounds |-> Bounds1, phase |-> None,
                          rating |-> None])
  /\ lastApplied = 1
  /\ evCount = 1
  /\ lastEventAt = 0
  /\ burstFetches = 1
  /\ StoreInit
  /\ HomeButtonInit
  /\ RadiusPageInit
  /\ DetailInit
  /\ TogglesInit
  /\ SearchInit
  /\ FixedInit

NextEnrich ==
  \/ \E h \in Homes : SetHomeCalled(h)
  \/ handleClear

SpecEnrich == InitEnrich /\ [][NextEnrich]_vars

Pos(list, u) == CHOOSE i \in 1..Len(list) : list[i].urn = u

\* out holds the records of in, each once, changed in distance_from_home only
PermutationOf(in, out) ==
  /\ Len(out) = Len(in)
  /\ \A i \in 1..Len(in) : \E j \in 1..Len(out) :
       [out[j] EXCEPT !.distance_from_home = in[i].distance_from_home] = in[i]

\* the distance the claim expects for a record with coordinates
ExpectedDistance(s, h) ==
  (HavTable[<<h.latitude, Val(s.latitude), Abs(Val(s.longitude) - h.longitude)>>] + 50) \div 100

\* C9: with a home stored, the enrichment returns a permutation of its input
\* in which exactly the records with both coordinates carry the distance
\* from home rounded to 2 decimals, the others carry none, and the list is
\* ascending in distance with the records without one after all the others.
C9_EnrichSortsByDistance ==
  [][(didMount /\ storage' # None) =>
       /\ PermutationOf(schools, schools')
       /\ \A j \in 1..Len(schools') :
            IF schools'[j].latitude # None /\ schools'[j].longitude # None
              THEN schools'[j].distance_from_home =
                     Some(ExpectedDistance(schools'[j], Val(getHome')))
              ELSE schools'[j].distance_from_home = None
       /\ \A i, j \in 1..Len(schools') : i < j =>
            /\ schools'[i].distance_from_home = None =>
                 schools'[j].distance_from_home = None
            /\ (schools'[i].distance_from_home # None
                  /\ schools'[j].distance_from_home # None) =>
                 Val(schools'[i].distance_from_home)
                   <= Val(schools'[j].distance_from_home)]_vars

\* the list fetched as school 4, school 5, school 1 is displayed, with
\* Home1 stored, as school 1 at 69.98 km, school 4 at 111.19 km and school 5,
\* which has no longitude, without a distance
C9_Witness ==
  /\ getHome = Some(Home1)
  /\ lastResp.schools = <<SchoolDB[4], SchoolDB[5], SchoolDB[1]>>
  /\ schools = <<[SchoolDB[1] EXCEPT !.distance_from_home = Some(6998)],
                 [SchoolDB[4] EXCEPT !.distance_from_home = Some(11119)],
                 SchoolDB[5]>>

\* C10: the sort is stable: two records with equal distance_from_home, or
\* both without one, keep the relative order they had in the input.
C10_EnrichSortIsStable ==
  [][(didMount /\ storage' # None) =>
       \A i, j \in 1..Len(schools') :
         (i < j /\ schools'[i].distance_from_home = schools'[j].distance_from_home)
           => Pos(schools, schools'[i].urn) < Pos(schools, schools'[j].urn)]_vars

\* the list fetched as school 4, school 2, school 1 is displayed, with Home1
\* stored, with the two schools at 69.98 km in their fetched order
C10_Witness ==
  /\ getHome = Some(Home1)
  /\ lastResp.schools = <<SchoolDB[4], SchoolDB[2], SchoolDB[1]>>
  /\ Urns(schools) = <<2, 1, 4>>
  /\ schools[1].distance_from_home = Some(6998)
  /\ schools[2].distance_from_home = Some(6998)

\* C11: when no home is stored, enrichWithHomeDistance returns its input as
\* it is: the pass the page runs over its list leaves the list equal to what
\* it was, the same records in the same order with the same fields.
C11_NoHomeReturnsInput ==
  [][(didMount /\ getHome' = None) => schools' = schools]_vars

\* the home was cleared after a pass with a home: the list the pass returned
\* as it was is still in distance order and still carries the distances
C11_Witness ==
  /\ getHome = None
  /\ lastResp.schools = <<SchoolDB[4], SchoolDB[1]>>
  /\ Urns(schools) = <<1, 4>>
  /\ schools[1].distance_from_home = Some(6998)

\* ------------------------------------------ the home store and its listeners
\* number && ... : a missing coordinate and 0 are falsy
Truthy(o) == o # None /\ Val(o) # 0

\* what /api/search answers to the home button: the postcode of either home,
\* a postcode on the meridian, a name search result
LookupResults ==
  {[type |-> "postcode", postcode |-> "H1", latitude |-> Some(51), longitude |-> Some(1)],
   [type |-> "postcode", postcode |-> "H2", latitude |-> Some(52), longitude |-> Some(1)],
   [type |-> "postcode", postcode |-> "M0", latitude |-> Some(51), longitude |-> Some(0)],
   [type |-> "name", postcode |-> "", latitude |-> None, longitude |-> None]}

\* what lastLookup holds after a rejected request
LookupFailure ==
  [type |-> "failed", postcode |-> "", latitude |-> None, longitude |-> None]

\* the text of the postcode input, trimmed
Queries == {"", "H1"}

\* handleSubmit up to its await; the submit button is disabled while loading
handleSubmit(q) ==
  /\ ~hbLoading
  /\ q # ""
  /\ hbLoading' = TRUE
  /\ hbError' = ""
  /\ UNCHANGED <<storage, pageVars, schedVars, now, histVars, storeVars,
                 lastLookup, radiusVars, extraVars, detailVars>>

\* an answer that is not a postcode result removes the stored home
LookupAnswered_ClearsOnMiss(data) ==
  /\ hbLoading
  /\ IF data.type = "postcode" /\ Truthy(data.latitude) /\ Truthy(data.longitude)
       THEN /\ setHome([postcode |-> data.postcode,
                        latitude |-> Val(data.latitude),
                        longitude |-> Val(data.longitude)])
            /\ hbError' = hbError
       ELSE /\ hbError' = "Could not find that postcode"
            /\ clearHome
  /\ hbLoading' = FALSE
  /\ lastLookup' = Some(data)
  /\ HomeFrame

\* handleSubmit after its awaits, the request fulfilled with data
LookupAnswered(data) ==
  /\ hbLoading
  /\ IF data.type = "postcode" /\ Truthy(data.latitude) /\ Truthy(data.longitude)
       THEN /\ setHome([postcode |-> data.postcode,
                        latitude |-> Val(data.latitude),
                        longitude |-> Val(data.longitude)])
            /\ hbError' = hbError
       ELSE /\ hbError' = "Could not find that postcode"
            /\ UNCHANGED <<storage, schools, radiusVars, homeState, notified,
                           lastWrite>>
  /\ hbLoading' = FALSE
  /\ lastLookup' = Some(data)
  /\ HomeFrame

\* handleSubmit after its awaits, the request or the parsing of its body
\* rejected
LookupFails ==
  /\ hbLoading
  /\ hbError' = "Failed to look up postcode"
  /\ hbLoading' = FALSE
  /\ lastLookup' = Some(LookupFailure)
  /\ UNCHANGED <<storage, pageVars, schedVars, now, histVars, storeVars,
                 radiusVars, extraVars, detailVars>>

\* a link to /school/{urn} is followed: the map page that was displayed
\* unmounts and the cleanup of its effect removes its listener, the school
\* page mounts and its effect reads the store and registers its listener;
\* the variables of an unmounted page keep what the page held when it went
OpenSchoolPage ==
  /\ "detail" \notin subscribers
  /\ didMount' = FALSE
  /\ subscribers' = (subscribers \ {"radius"}) \cup {"detail"}
  /\ homeState' = [homeState EXCEPT !["detail"] = getHome]
  /\ UNCHANGED <<storage, schools, loading, phase, rating, tooManySchools,
                 boundsRef, debounceTimer, schedVars, now, histVars, notified,
                 lastWrite, buttonVars, radiusVars, extraVars, detailVars>>

\* the school page is left for the landing page: the cleanup of its effect
\* removes its listener
LeaveSchoolPage ==
  /\ "detail" \in subscribers
  /\ subscribers' = subscribers \ {"detail"}
  /\ UNCHANGED <<storage, pageVars, schedVars, now, histVars, homeState,
                 notified, lastWrite, buttonVars, radiusVars, extraVars,
                 detailVars>>

\* the lists a map page holds
HomeLists == {List1, List2}

\* the viewport page after its first fetch, answered with list
PageLoaded(list) ==
  /\ schools = list
  /\ lastResp = [total |-> 200, schools |-> list]
  /\ loading = FALSE
  /\ phase = ""
  /\ rating = ""
  /\ tooManySchools = FALSE
  /\ boundsRef = Some(Bounds1)
  /\ debounceTimer = 1
  /\ didMount = TRUE
  /\ timers = {}
  /\ inflight = {}
  /\ now = DEBOUNCE_MS
  /\ nextToken = 2
  /\ lastRequest = Some([id |-> 1, bounds |-> Bounds1, phase |-> None,
                          rating |-> None])
  /\ lastApplied = 1
  /\ evCount = 1
  /\ lastEventAt = 0
  /\ burstFetches = 1

\* the viewport page not mounted
PageNotMounted ==
  /\ schools = <<>>
  /\ lastResp = NoResponse
  /\ loading = FALSE
  /\ phase = ""
  /\ rating = ""
  /\ tooManySchools = FALSE
  /\ boundsRef = None
  /\ debounceTimer = 0
  /\ didMount = FALSE
  /\ timers = {}
  /\ inflight = {}
  /\ now = 0
  /\ nextToken = 1
  /\ lastRequest = None
  /\ lastApplied = 0
  /\ evCount = 0
  /\ lastEventAt = 0
  /\ burstFetches = 0

\* one of the two map pages is displayed, after its first fetch, answered
\* while no home was stored
InitHome ==
  /\ storage = None
  /\ \/ /\ \E list \in HomeLists : PageLoaded(list)
        /\ subscribers = {"button"}
        /\ RadiusPageInit
     \/ /\ PageNotMounted
        /\ subscribers = {"button", "radius"}
        /\ frSchools \in HomeLists
        /\ frIssued = 1
  /\ homeState = [c \in Components |-> None]
  /\ notified = Some([c \in Components |-> 0])
  /\ lastWrite = None
  /\ HomeButtonInit
  /\ DetailInit
  /\ TogglesInit
  /\ SearchInit
  /\ FixedInit

NextHome ==
  \/ \E q \in Queries : handleSubmit(q)
  \/ \E data \in LookupResults : LookupAnswered(data)
  \/ LookupFails
  \/ handleClear
  \/ OpenSchoolPage
  \/ LeaveSchoolPage

SpecHome == InitHome /\ [][NextHome]_vars

\* setHome returns in this step: a lookup ends without an error
SetStep == hbLoading /\ ~hbLoading' /\ hbError' = ""
\* clearHome returns in this step
ClearStep == storage # None /\ storage' = None

UrnSet(list) == {list[i].urn : i \in 1..Len(list)}

\* C12: a home-changed notification makes each map page that listens run the
\* enrichment over the list it holds and send no request: the list holds the
\* same records before and after (with a home stored, each record with
\* coordinates then carries a distance), and neither page has sent, or has
\* in flight, more fetches than before.
C12_HomeChangeEnrichesWithoutFetch ==
  [][(SetStep \/ ClearStep) =>
       /\ Subscribed("map") =>
            /\ UrnSet(schools') = UrnSet(schools)
            /\ PermutationOf(schools, schools')
            /\ getHome' # None => HasDistances(schools')
       /\ Subscribed("radius") =>
            /\ UrnSet(frSchools') = UrnSet(frSchools)
            /\ PermutationOf(frSchools, frSchools')
            /\ getHome' # None => HasDistances(frSchools')
       /\ nextToken' = nextToken
       /\ inflight' = inflight
       /\ loading' = loading
       /\ frIssued' = frIssued]_vars

\* Home1 was stored while the fixed-radius page held List2: the list is in
\* distance order with its distance, and the page has still sent its one
\* fetch only
C12_Witness ==
  /\ getHome = Some(Home1)
  /\ Subscribed("radius")
  /\ Urns(frSchools) = <<2, 3>>
  /\ frSchools[1].distance_from_home = Some(6998)
  /\ frSchools[2].distance_from_home = None
  /\ frIssued = 1
  /\ nextToken = 1

\* C13: getHome returns the home of the most recent setHome when no
\* clearHome followed it, and null otherwise (also when neither was ever
\* called); at most one home is stored.
C13_GetHomeReturnsLastWrite ==
  /\ getHome = lastWrite
  /\ Cardinality(storage) <= 1

\* Home1 was stored, the school page left, and Home2 was stored: getHome
\* returns Home2, while the page that left still holds Home1
C13_Witness ==
  /\ getHome = Some(Home2)
  /\ lastWrite = Some(Home2)
  /\ homeState["detail"] = Some(Home1)
  /\ "detail" \notin subscribers

\* C14: setHome and clearHome write the store and then, before returning,
\* run the listener of every component subscribed at that moment exactly
\* once; a listener that calls getHome gets the value just written; a
\* component that has unsubscribed gets no notification.
C14_WriteThenNotifyEachSubscriberOnce ==
  [][(SetStep \/ ClearStep) =>
       /\ getHome' = lastWrite'
       /\ notified' = Some([c \in Components |-> IF Subscribed(c) THEN 1 ELSE 0])
       /\ \A c \in Components :
            IF Subscribed(c) THEN homeState'[c] = getHome'
            ELSE homeState'[c] = homeState[c]]_vars

\* Home1 was stored while the viewport page was displayed, the school page
\* was opened and the home removed: the listeners of the school page and of
\* the home button ran once and hold null; the viewport page, unmounted
\* holding Home1, was not notified
C14_Witness ==
  /\ getHome = None
  /\ ~Subscribed("map")
  /\ homeState["map"] = Some(Home1)
  /\ notified = Some([c \in Components |->
                        IF c \in {"detail", "button"} THEN 1 ELSE 0])
  /\ homeState["detail"] = None
  /\ homeState["button"] = None

\* C15: when the lookup of the home button is answered with something other
\* than a postcode result, or fails, an error message is set, the stored
\* home stays what it was and no listener runs: no component's home and no
\* page's list changes.
C15_FailedLookupKeepsHome ==
  [][(hbLoading /\ ~hbLoading' /\ Val(lastLookup').type # "postcode") =>
       /\ hbError' # ""
       /\ storage' = storage
       /\ lastWrite' = lastWrite
       /\ notified' = notified
       /\ homeState' = homeState
       /\ schools' = schools
       /\ frSchools' = frSchools]_vars

\* with Home1 stored, a lookup was answered with a name search result: the
\* message is shown and Home1 is still stored
C15_Witness ==
  /\ ~hbLoading
  /\ lastLookup # None
  /\ Val(lastLookup).type = "name"
  /\ hbError = "Could not find that postcode"
  /\ getHome = Some(Home1)
  /\ homeState["button"] = Some(Home1)

\* ------------------------------------------------- SchoolMap: marker layout
\* a coordinate in degrees, in units of 1e-5 degree
Degrees(x) == x * 100000

\* every other record at the same coordinates counted, the later ones too
MarkerPosition_CountsAll(list, idx) ==
  IF list[idx].latitude = None \/ list[idx].longitude = None THEN None
  ELSE LET dupesBefore ==
             Cardinality({i \in (1..Len(list)) \ {idx} :
                            /\ list[i].latitude = list[idx].latitude
                            /\ list[i].longitude = list[idx].longitude})
       IN Some([lat |-> Degrees(Val(list[idx].latitude)) + dupesBefore * MARKER_OFFSET,
                lng |-> Degrees(Val(list[idx].longitude)) + dupesBefore * MARKER_OFFSET])

\* the position of the marker of list[idx], None when no marker is rendered
MarkerPosition(list, idx) ==
  IF list[idx].latitude = None \/ list[idx].longitude = None THEN None
  ELSE LET dupesBefore ==
             Cardinality({i \in 1..(idx - 1) :
                            /\ list[i].latitude = list[idx].latitude
                            /\ list[i].longitude = list[idx].longitude})
       IN Some([lat |-> Degrees(Val(list[idx].latitude)) + dupesBefore * MARKER_OFFSET,
                lng |-> Degrees(Val(list[idx].longitude)) + dupesBefore * MARKER_OFFSET])

\* the markers SchoolMap renders for the list it is given
Markers(list) == [idx \in 1..Len(list) |-> MarkerPosition(list, idx)]

\* the records of the list at the very coordinates of list[i]
Group(list, i) ==
  {j \in 1..Len(list) : /\ list[j].latitude = list[i].latitude
                        /\ list[j].longitude = list[i].longitude}

\* C16: among the records with both coordinates, the markers of the records
\* of one group (exactly equal latitude and longitude) are at pairwise
\* distinct positions: the k-th of the group in list order, k from 0, is at
\* (lat + k * 0.00008, lng + k * 0.00008), so a record with no earlier
\* duplicate is at its true coordinates.
C16_CoLocatedMarkersAreSpread ==
  \A i \in 1..Len(schools) :
    (schools[i].latitude # None /\ schools[i].longitude # None) =>
      LET k == Cardinality({j \in Group(schools, i) : j < i})
      IN /\ Markers(schools)[i] =
              Some([lat |-> Val(schools[i].latitude) * 100000 + k * 8,
                    lng |-> Val(schools[i].longitude) * 100000 + k * 8])
         /\ \A j \in Group(schools, i) \ {i} :
              Markers(schools)[j] # Markers(schools)[i]

\* with Home1 stored the list holds schools 6, 1 and 7, all at (51, 2) and
\* so in their fetched order: their markers are at (51, 2),
\* (51.00008, 2.00008) and (51.00016, 2.00016)
C16_Witness ==
  /\ getHome = Some(Home1)
  /\ Urns(schools) = <<6, 1, 7>>
  /\ Markers(schools) = <<Some([lat |-> 5100000, lng |-> 200000]),
                          Some([lat |-> 5100008, lng |-> 200008]),
                          Some([lat |-> 5100016, lng |-> 200016])>>

\* ------------------------------------ handleSchoolClick: the catchment circle
\* CatchmentEntry, reduced to year and last_distance_offered (nullable, in
\* thousandths of a mile)
Entry(y, d) == [year |-> y, last_distance_offered |-> d]

\* the admission history /api/schools/{urn} returns, by urn: the newest year
\* without a distance; one year, for the school on the meridian; two years
\* with the older first; none; one year without a distance
CatchmentOf ==
  <<Some(<<Entry(2024, None), Entry(2023, Some(800))>>),
    Some(<<Entry(2024, Some(700))>>),
    None,
    Some(<<Entry(2022, Some(1234)), Entry(2023, Some(500))>>),
    None,
    None,
    Some(<<Entry(2024, None)>>)>>

\* the record fetchSchool(urn) resolves to
Detail(urn) == [SchoolDB[urn] EXCEPT !.catchment = CatchmentOf[urn]]

\* find(...) picking, of the entries with a distance, the one of the latest
\* year
FindOffered_Latest(catchment) ==
  IF catchment = None THEN None
  ELSE LET c == Val(catchment)
           ks == {k \in 1..Len(c) : c[k].last_distance_offered # None}
       IN IF ks = {} THEN None
          ELSE Some(c[CHOOSE k \in ks : \A j \in ks : c[j].year <= c[k].year])

\* detail.catchment?.find((e) => e.last_distance_offered != null): the first
\* entry with a distance, None (undefined) when there is none
FindOffered(catchment) ==
  IF catchment = None THEN None
  ELSE LET c == Val(catchment)
           ks == {k \in 1..Len(c) : c[k].last_distance_offered # None}
       IN IF ks = {} THEN None
          ELSE Some(c[CHOOSE k \in ks : \A j \in ks : k <= j])

\* x.toFixed(2) for x >= 0 in thousandths of a mile: hundredths of a mile
ToFixed2(th) == (th + 5) \div 10

\* the circle handleSchoolClick sets for a detail, None for undefined
CircleFor(detail) ==
  LET entry == FindOffered(detail.catchment)
  IN IF entry # None /\ Truthy(detail.latitude) /\ Truthy(detail.longitude)
       THEN Some([lat |-> Val(detail.latitude),
                  lng |-> Val(detail.longitude),
                  radiusMiles |-> Val(Val(entry).last_distance_offered),
                  label |-> [miles |-> ToFixed2(Val(Val(entry).last_distance_offered)),
                             year |-> Val(entry).year]])
       ELSE None

\* handleSchoolClick up to its await, called by the click on the marker of
\* the school
handleSchoolClick(urn) ==
  /\ Len(dClicks) < MaxClicks
  /\ \E i \in 1..Len(schools) :
       schools[i].urn = urn /\ MarkerPosition(schools, i) # None
  /\ dClicks' = Append(dClicks, urn)
  /\ detailInflight' = detailInflight \cup {Len(dClicks) + 1}
  /\ dCleared' = FALSE
  /\ UNCHANGED <<storage, pageVars, schedVars, now, histVars, storeVars,
                 buttonVars, radiusVars, extraVars, selectedSchool,
                 catchmentCircle, dOk>>

\* handleSchoolClick after its await, the request fulfilled
DetailArrives(req) ==
  /\ req \in detailInflight
  /\ detailInflight' = detailInflight \ {req}
  /\ LET detail == Detail(dClicks[req])
     IN /\ selectedSchool' = Some(detail)
        /\ catchmentCircle' = CircleFor(detail)
        /\ schools' =
             IF detail.catchment # None /\ Len(Val(detail.catchment)) > 0
               THEN [i \in 1..Len(schools) |->
                       IF schools[i].urn = detail.urn
                         THEN [schools[i] EXCEPT !.catchment = detail.catchment]
                         ELSE schools[i]]
               ELSE schools
  /\ dOk' = dOk \cup {req}
  /\ UNCHANGED <<storage, loading, phase, rating, tooManySchools, boundsRef,
                 debounceTimer, didMount, schedVars, now, histVars, storeVars,
                 buttonVars, radiusVars, extraVars, dClicks, dCleared>>

\* the catch block leaving the circle as it is
DetailFails_KeepsCircle(req) ==
  /\ req \in detailInflight
  /\ detailInflight' = detailInflight \ {req}
  /\ UNCHANGED <<storage, pageVars, schedVars, now, histVars, storeVars,
                 buttonVars, radiusVars, extraVars, selectedSchool,
                 catchmentCircle,
                 dClicks, dOk, dCleared>>

\* handleSchoolClick after its await, the request rejected
DetailFails(req) ==
  /\ req \in detailInflight
  /\ detailInflight' = detailInflight \ {req}
  /\ catchmentCircle' = None
  /\ UNCHANGED <<storage, pageVars, schedVars, now, histVars, storeVars,
                 buttonVars, radiusVars, extraVars, selectedSchool, dClicks,
                 dOk,
                 dCleared>>

\* the button clearing the selection only
BackToList_KeepsCircle ==
  /\ selectedSchool # None
  /\ selectedSchool' = None
  /\ catchmentCircle' = catchmentCircle
  /\ dCleared' = TRUE
  /\ UNCHANGED <<storage, pageVars, schedVars, now, histVars, storeVars,
                 buttonVars, radiusVars, extraVars, detailInflight, dClicks,
                 dOk>>

\* the "Back to list" button of the panel, shown while a school is selected
BackToList ==
  /\ selectedSchool # None
  /\ selectedSchool' = None
  /\ catchmentCircle' = None
  /\ dCleared' = TRUE
  /\ UNCHANGED <<storage, pageVars, schedVars, now, histVars, storeVars,
                 buttonVars, radiusVars, extraVars, detailInflight, dClicks,
                 dOk>>

\* the page after its first fetch, answered with every school while no home
\* was stored
InitDetail ==
  /\ storage = None
  /\ PageLoaded(SchoolDB)
  /\ StoreInit
  /\ HomeButtonInit
  /\ RadiusPageInit
  /\ DetailInit
  /\ TogglesInit
  /\ SearchInit
  /\ FixedInit

NextDetail ==
  \/ \E i \in 1..Len(schools) : handleSchoolClick(schools[i].urn)
  \/ \E req \in detailInflight : DetailArrives(req)
  \/ \E req \in detailInflight : DetailFails(req)
  \/ BackToList

SpecDetail == InitDetail /\ [][NextDetail]_vars

\* a detail response is applied / a detail failure is handled in this step
DetailAnswered == \E req \in detailInflight : detailInflight' = detailInflight \ {req}
DetailApplied == DetailAnswered /\ dOk' # dOk
DetailFailed == DetailAnswered /\ dOk' = dOk

\* the entries of a history that carry a distance
Offered(catchment) ==
  IF catchment = None THEN {}
  ELSE {k \in 1..Len(Val(catchment)) :
          Val(catchment)[k].last_distance_offered # None}

C18_CircleWheneverCoordinatesPresent ==
  [][DetailApplied =>
       LET d == Val(selectedSchool')
       IN IF Offered(d.catchment) # {} /\ d.latitude # None /\ d.longitude # None
            THEN /\ catchmentCircle' # None
                 /\ Val(catchmentCircle').lat = Val(d.latitude)
                 /\ Val(catchmentCircle').lng = Val(d.longitude)
            ELSE catchmentCircle' = None]_vars

\* C19: when a detail fetch fails, the circle is cleared, whatever was drawn
\* before, and the failure sends no detail request: nothing is retried.
C19_DetailFailureClearsCircle ==
  [][DetailFailed =>
       /\ catchmentCircle' = None
       /\ dClicks' = dClicks
       /\ detailInflight' \subseteq detailInflight]_vars

\* school 1 was clicked and its circle drawn, then a second click's fetch
\* failed: school 1 is still selected, its circle is gone, nothing in flight
C19_Witness ==
  /\ Len(dClicks) = 2
  /\ dClicks[1] = 1
  /\ dOk = {1}
  /\ detailInflight = {}
  /\ selectedSchool = Some(Detail(1))
  /\ catchmentCircle = None

\* C20: a later selection supersedes an earlier one: once every click's
\* response has been applied, in whatever order they came, the selected
\* school is the one clicked last and a circle drawn is at its coordinates.
C20_LastClickWins ==
  (/\ Len(dClicks) >= 2
   /\ detailInflight = {}
   /\ dOk = 1..Len(dClicks)
   /\ selectedSchool # None) =>
     /\ Val(selectedSchool).urn = dClicks[Len(dClicks)]
     /\ catchmentCircle # None =>
          /\ Some(Val(catchmentCircle).lat) = SchoolDB[dClicks[Len(dClicks)]].latitude
          /\ Some(Val(catchmentCircle).lng) = SchoolDB[dClicks[Len(dClicks)]].longitude

\* C21: once "Back to list" has cleared the selection, no circle is drawn
\* until a marker is clicked again, also when the response of a click made
\* before the clear arrives after it.
C21_CircleStaysClearedAfterBack == dCleared => catchmentCircle = None

\* C29: whenever a circle is drawn, a school is selected, the centre of the
\* circle is the latitude and longitude of that school and its radius is the
\* first non-null last_distance_offered of that school's history.
C29_CircleBelongsToSelectedSchool ==
  catchmentCircle # None =>
    /\ selectedSchool # None
    /\ Some(Val(catchmentCircle).lat) = Val(selectedSchool).latitude
    /\ Some(Val(catchmentCircle).lng) = Val(selectedSchool).longitude
    /\ \E k \in Offered(Val(selectedSchool).catchment) :
         /\ \A j \in Offered(Val(selectedSchool).catchment) : k <= j
         /\ Some(Val(catchmentCircle).radiusMiles) =
              Val(Val(selectedSchool).catchment)[k].last_distance_offered

\* school 1 and then school 4 were clicked and their details applied:
\* school 4 is selected and the circle is at (52, 1) with the radius of its
\* 2022 entry
C29_Witness ==
  /\ dClicks = <<1, 4>>
  /\ dOk = {1, 2}
  /\ detailInflight = {}
  /\ ~dCleared
  /\ selectedSchool = Some(Detail(4))
  /\ catchmentCircle # None
  /\ Val(catchmentCircle).lat = 52
  /\ Val(catchmentCircle).lng = 1
  /\ Val(catchmentCircle).radiusMiles = 1234

\* C27: while a bounds request has been sent and its response or failure has
\* not been handled, loading is true, also when two requests overlap and
\* the first ends while the second is in flight.
C27_LoadingWhileFetchInFlight == inflight # {} => loading

\* ------------------------------------------- filteredSchools: local filters
\* a string, where its characters are looked at, is the sequence of them
UpperCase ==
  <<"A", "B", "C", "D", "E", "F", "G", "H", "I", "J", "K", "L", "M", "N",
    "O", "P", "Q", "R", "S", "T", "U", "V", "W", "X", "Y", "Z">>
LowerCase ==
  <<"a", "b", "c", "d", "e", "f", "g", "h", "i", "j", "k", "l", "m", "n",
    "o", "p", "q", "r", "s", "t", "u", "v", "w", "x", "y", "z">>

\* String.prototype.toLowerCase
ToLowerCase(s) ==
  [i \in 1..Len(s) |->
     IF \E k \in 1..26 : UpperCase[k] = s[i]
       THEN LowerCase[CHOOSE k \in 1..26 : UpperCase[k] = s[i]]
       ELSE s[i]]

\* String.prototype.includes
Includes(s, sub) ==
  \E o \in 0..(Len(s) - Len(sub)) : \A i \in 1..Len(sub) : s[o + i] = sub[i]

INDEPENDENT ==
  <<"i", "n", "d", "e", "p", "e", "n", "d", "e", "n", "t">>
SELECTIVE == "Selective"

\* the type labels of the records
TypeIndependent ==
  <<"O", "t", "h", "e", "r", " ", "I", "n", "d", "e", "p", "e", "n",
  "d", "e", "n", "t", " ", "S", "c", "h", "o", "o", "l">>
TypeIndependentLower ==
  <<"i", "n", "d", "e", "p", "e", "n", "d", "e", "n", "t", " ", "s",
  "c", "h", "o", "o", "l">>
TypeCommunity ==
  <<"C", "o", "m", "m", "u", "n", "i", "t", "y", " ", "s", "c", "h",
  "o", "o", "l">>

\* s.type?.toLowerCase().includes("independent") ?? false
Independent(s) ==
  IF s.type = None THEN FALSE
  ELSE Includes(ToLowerCase(Val(s.type)), INDEPENDENT)

\* every selective record classified grammar
Grammar_IgnoresIndependent(s) == s.admissions_policy = Some(SELECTIVE)

\* s.admissions_policy === "Selective" && !indep
Grammar(s) == s.admissions_policy = Some(SELECTIVE) /\ ~Independent(s)

\* the callback of schools.filter(...)
Visible(s, sg, si) ==
  IF ~sg /\ Grammar(s) THEN FALSE
  ELSE IF ~si /\ Independent(s) THEN FALSE
  ELSE TRUE

\* Array.prototype.filter
RECURSIVE Filter(_, _, _)
Filter(list, sg, si) ==
  IF list = <<>> THEN <<>>
  ELSE IF Visible(Head(list), sg, si)
         THEN <<Head(list)>> \o Filter(Tail(list), sg, si)
  ELSE Filter(Tail(list), sg, si)

\* the filter also hiding the records that carry no distance
FilterSchools_NeedsDistance(list, sg, si) ==
  SelectSeq(Filter(list, sg, si), LAMBDA s : s.distance_from_home # None)

\* the function of the useMemo, on the list and the toggles of a render
FilterSchools(list, sg, si) == Filter(list, sg, si)

\* useMemo on [schools, showGrammar, showIndependent]
filteredSchools == FilterSchools(schools, showGrammar, showIndependent)

\* the checkbox also running the filter effect
setShowGrammar_Refetches(v) ==
  /\ v # showGrammar
  /\ showGrammar' = v
  /\ FilterEffect(phase, rating)
  /\ UNCHANGED <<storage, schools, phase, rating, tooManySchools, boundsRef,
                 debounceTimer, didMount, timers, now, histVars, storeVars,
                 buttonVars, radiusVars, detailVars, showIndependent,
                 searchVars, fixedVars>>

\* the Grammar checkbox: onChange gives the new checked state
setShowGrammar(v) ==
  /\ v # showGrammar
  /\ showGrammar' = v
  /\ UNCHANGED <<storage, pageVars, schedVars, now, histVars, storeVars,
                 buttonVars, radiusVars, detailVars, showIndependent,
                 searchVars, fixedVars>>

\* the Independent checkbox
setShowIndependent(v) ==
  /\ v # showIndependent
  /\ showIndependent' = v
  /\ UNCHANGED <<storage, pageVars, schedVars, now, histVars, storeVars,
                 buttonVars, radiusVars, detailVars, showGrammar,
                 searchVars, fixedVars>>

\* a record of SchoolDB with its type label and admissions policy
Typed(u, ty, ap) == [SchoolDB[u] EXCEPT !.type = ty, !.admissions_policy = ap]

\* an independent selective school, a selective community school, a
\* selective school without a type label, an independent school without a
\* policy, a school that is neither
TypedDB ==
  <<Typed(1, Some(TypeIndependent), Some(SELECTIVE)),
    Typed(2, Some(TypeCommunity), Some(SELECTIVE)),
    Typed(3, None, Some(SELECTIVE)),
    Typed(4, Some(TypeIndependentLower), None),
    Typed(5, Some(TypeCommunity), Some("Non-selective"))>>

\* the lists a response can hold: up to MaxLen distinct records of TypedDB
TypedListsOfLen(n) ==
  {[i \in 1..n |-> TypedDB[f[i]]] :
     f \in {g \in [1..n -> 1..Len(TypedDB)] :
              \A i, j \in 1..n : i # j => g[i] # g[j]}}
TypedLists == UNION {TypedListsOfLen(n) : n \in 0..MaxLen}

\* the page after its first fetch, answered while no home was stored
InitFilter ==
  /\ storage = None
  /\ \E list \in TypedLists : PageLoaded(list)
  /\ StoreInit
  /\ HomeButtonInit
  /\ RadiusPageInit
  /\ DetailInit
  /\ TogglesInit
  /\ SearchInit
  /\ FixedInit

NextFilter ==
  \/ \E v \in BOOLEAN : setShowGrammar(v)
  \/ \E v \in BOOLEAN : setShowIndependent(v)
  \/ \E h \in Homes : SetHomeCalled(h)
  \/ handleClear

SpecFilter == InitFilter /\ [][NextFilter]_vars

\* a toggle changes in this step
ToggleStep == showGrammar' # showGrammar \/ showIndependent' # showIndependent

\* sub holds some of the elements of full, in the order of full
RECURSIVE IsSubSeq(_, _)
IsSubSeq(sub, full) ==
  IF sub = <<>> THEN TRUE
  ELSE IF full = <<>> THEN FALSE
  ELSE IF Head(sub) = Head(full) THEN IsSubSeq(Tail(sub), Tail(full))
  ELSE IsSubSeq(sub, Tail(full))

\* the records of a list
Records(list) == {list[i] : i \in 1..Len(list)}

\* C22: a step that changes showGrammar or showIndependent sends no request
\* and leaves schools, tooManySchools and loading as they were; and the
\* filtered list always holds some of the records of the fetched list in the
\* order of the fetched list, all of them while both toggles are on
C22_TogglesAreLocal ==
  /\ [][ToggleStep =>
          /\ schools' = schools
          /\ tooManySchools' = tooManySchools
          /\ loading' = loading
          /\ inflight' = inflight
          /\ timers' = timers
          /\ nextToken' = nextToken]_vars
  /\ [](/\ IsSubSeq(filteredSchools, schools)
        /\ (showGrammar /\ showIndependent => filteredSchools = schools))

\* both toggles switched off on a page that holds three records, one of
\* them still shown
C22_Witness ==
  /\ ~showGrammar
  /\ ~showIndependent
  /\ Len(schools) = 3
  /\ Len(filteredSchools) = 1
  /\ inflight = {}
  /\ nextToken = 2

\* the type label holds "independent" in any mix of cases
LabelledIndependent(s) ==
  /\ s.type # None
  /\ \E o \in 0..(Len(Val(s.type)) - Len(INDEPENDENT)) :
       \A i \in 1..Len(INDEPENDENT) :
         \E k \in 1..26 : /\ LowerCase[k] = INDEPENDENT[i]
                          /\ Val(s.type)[o + i] \in {LowerCase[k], UpperCase[k]}

\* C23: a record of the list is hidden exactly when the Independent toggle is
\* off and its type label holds "independent" in any mix of cases, or the
\* Grammar toggle is off and its admissions policy is "Selective" and its type
\* label does not hold "independent"; so a record that is independent and
\* selective is never hidden as a grammar school, and a record without a type
\* label is never hidden as an independent school
C23_HiddenExactlyWhen ==
  \A s \in Records(schools) :
    (s \notin Records(filteredSchools)) <=>
      \/ ~showIndependent /\ LabelledIndependent(s)
      \/ /\ ~showGrammar
         /\ s.admissions_policy = Some(SELECTIVE)
         /\ ~LabelledIndependent(s)

\* the Grammar toggle off and the Independent toggle on: the independent
\* selective school is shown, the selective school without a type label is
\* hidden
C23_Witness ==
  /\ ~showGrammar
  /\ showIndependent
  /\ TypedDB[1] \in Records(schools)
  /\ TypedDB[1] \in Records(filteredSchools)
  /\ TypedDB[3] \in Records(schools)
  /\ TypedDB[3] \notin Records(filteredSchools)

\* C30: for the list the page holds, each home or none and each setting of
\* the toggles, filtering the enriched list gives the list that enriching the
\* filtered list gives
C30_FilterAndEnrichCommute ==
  \A h \in {None} \cup {Some(x) : x \in Homes} :
    FilterSchools(enrichWithHomeDistance(schools, h),
                  showGrammar, showIndependent)
      = enrichWithHomeDistance(filteredSchools, h)

\* a home is stored, the Grammar toggle is off, the list is sorted by
\* distance and one of its three records is hidden
C30_Witness ==
  /\ getHome = Some(Home1)
  /\ ~showGrammar
  /\ showIndependent
  /\ Len(schools) = 3
  /\ schools[1].distance_from_home # None
  /\ Len(filteredSchools) = 2

\* ----------------------------------------- the page opened with ?q=<query>
\* what /api/search answers: a postcode, schools found by name (the first of
\* them without a longitude), no school found
SearchResults ==
  {[type |-> "postcode", latitude |-> 51, longitude |-> 1, results |-> <<>>],
   [type |-> "name", latitude |-> 0, longitude |-> 0,
    results |-> <<SchoolDB[5], SchoolDB[4], SchoolDB[2]>>],
   [type |-> "name", latitude |-> 0, longitude |-> 0, results |-> <<>>]}

\* the continuation storing the results as they arrive
SearchAnswered_NoEnrich(result) ==
  /\ searchInflight
  /\ searchInflight' = FALSE
  /\ schools' = IF result.type # "postcode" /\ Len(result.results) > 0
                  THEN result.results
                  ELSE schools
  /\ UNCHANGED <<storage, loading, phase, rating, tooManySchools, boundsRef,
                 debounceTimer, didMount, schedVars, now, histVars, storeVars,
                 buttonVars, radiusVars, detailVars, showGrammar,
                 showIndependent, fixedVars>>

\* the continuation of searchSchools(q) in the searchParams effect. setCenter
\* moves the map; the viewport event that follows is handleBoundsChange
SearchAnswered(result) ==
  /\ searchInflight
  /\ searchInflight' = FALSE
  /\ schools' = IF result.type # "postcode" /\ Len(result.results) > 0
                  THEN enrichWithHomeDistance(result.results, getHome)
                  ELSE schools
  /\ UNCHANGED <<storage, loading, phase, rating, tooManySchools, boundsRef,
                 debounceTimer, didMount, schedVars, now, histVars, storeVars,
                 buttonVars, radiusVars, detailVars, showGrammar,
                 showIndependent, fixedVars>>

\* searchSchools(q) rejected: the promise has no catch, nothing is set
SearchFails ==
  /\ searchInflight
  /\ searchInflight' = FALSE
  /\ UNCHANGED <<storage, pageVars, schedVars, now, histVars, storeVars,
                 buttonVars, radiusVars, detailVars, showGrammar,
                 showIndependent, fixedVars>>

\* the page opened with ?q=, no home stored: the name search is sent by the
\* searchParams effect, the first viewport event has come and its timer has
\* expired, so the first bounds request is in flight
InitPage ==
  /\ storage = None
  /\ schools = <<>>
  /\ lastResp = NoResponse
  /\ loading = TRUE
  /\ phase = ""
  /\ rating = ""
  /\ tooManySchools = FALSE
  /\ boundsRef = Some(Bounds1)
  /\ debounceTimer = 1
  /\ didMount = TRUE
  /\ timers = {}
  /\ inflight = {1}
  /\ now = DEBOUNCE_MS
  /\ nextToken = 2
  /\ lastRequest = Some([id |-> 1, bounds |-> Bounds1, phase |-> None,
                          rating |-> None])
  /\ lastApplied = 0
  /\ evCount = 1
  /\ lastEventAt = 0
  /\ burstFetches = 1
  /\ StoreInit
  /\ HomeButtonInit
  /\ RadiusPageInit
  /\ DetailInit
  /\ TogglesInit
  /\ searchInflight = TRUE
  /\ FixedInit

\* the steps of the opened page; a marker is clicked once the detail of the
\* click before it has been handled
NextPage ==
  \/ \E req \in inflight, resp \in BoundsResponses : FetchSucceeds(req, resp)
  \/ \E req \in inflight : FetchFails(req)
  \/ \E p \in Phases : SetPhase(p)
  \/ SearchFails
  \/ \E result \in SearchResults : SearchAnswered(result)
  \/ /\ detailInflight = {}
     /\ \E i \in 1..Len(schools) : handleSchoolClick(schools[i].urn)
  \/ \E req \in detailInflight : DetailArrives(req)
  \/ \E req \in detailInflight : DetailFails(req)
  \/ \E h \in Homes : SetHomeCalled(h)
  \/ handleClear

SpecPage == InitPage /\ [][NextPage]_vars

\* C26: on the viewport page the list is empty whenever tooManySchools is
\* set, whatever the order of bounds responses, name-search responses,
\* marker clicks and home changes
C26_TooManyMeansEmptyList == tooManySchools => schools = <<>>

\* C28: on the viewport page, while a home is stored and the page has been
\* told of it, every record of the list with both coordinates carries the
\* distance from that home, and the list is ascending in distance with the
\* records without coordinates after the others
C28_ListFollowsStoredHome ==
  (didMount /\ getHome # None /\ homeState["map"] = getHome) =>
    /\ \A i \in 1..Len(schools) :
         (schools[i].latitude # None /\ schools[i].longitude # None) =>
           schools[i].distance_from_home =
             Some(ExpectedDistance(schools[i], Val(getHome)))
    /\ \A i, j \in 1..Len(schools) : i < j =>
         \/ schools[j].latitude = None
         \/ schools[j].longitude = None
         \/ /\ schools[i].latitude # None
            /\ schools[i].longitude # None
            /\ Val(schools[i].distance_from_home)
                 <= Val(schools[j].distance_from_home)

\* Home1 was stored before the name search was answered; the schools found
\* are listed nearest first, the one without a longitude last after it was
\* first in the answer, and school 4 carries the catchment of a detail
C28_Witness ==
  /\ getHome = Some(Home1)
  /\ ~searchInflight
  /\ Urns(schools) = <<2, 4, 5>>
  /\ schools[1].distance_from_home = Some(6998)
  /\ schools[2].distance_from_home = Some(11119)
  /\ schools[2].catchment # None

\* --------------------------------------- the fixed-radius page (layout.tsx)
MaxFilterChanges == 1

\* the radius options followed
Radii == {5, 10}

\* a coordinate in whole degrees, in 1/10000 degree
Deg4(x) == x * 10000

\* parseFloat of the lat and lng parameters of ?lat=52&lng=1
ParamCenter == <<Deg4(52), Deg4(1)>>

\* the arguments of fetchNearbySchools(lat, lng, radius, phase || undefined,
\* rating || undefined), for the filters f of the loadSchools that is called
NearbyRequest(c, f) ==
  [lat |-> c[1], lng |-> c[2], radius |-> f.radius,
   phase |-> OrUndefined(f.phase), rating |-> OrUndefined(f.rating)]

\* the centre the searchParams effect sets when it runs, if it sets one
EffectCenter ==
  IF frOpened = "latlng" THEN Some(ParamCenter)
  ELSE IF frOpened = "q" THEN None
  ELSE IF getHome # None
         THEN Some(<<Deg4(Val(getHome).latitude), Deg4(Val(getHome).longitude)>>)
  ELSE None

\* the requests the searchParams effect sends when it runs with the
\* loadSchools of filters f
EffectRequests(f) ==
  IF frOpened = "q" THEN <<>>
  ELSE IF EffectCenter # None THEN <<NearbyRequest(Val(EffectCenter), f)>>
  ELSE <<NearbyRequest(DefaultCenter, f)>>

\* the name searches it sends
EffectSearches(f) == IF frOpened = "q" THEN <<f>> ELSE <<>>

\* the requests sent in one step, reqs, become the last ones in flight
SendAll(reqs) ==
  /\ frInflight' = frInflight \cup ((frIssued + 1)..(frIssued + Len(reqs)))
  /\ frIssued' = frIssued + Len(reqs)
  /\ frLastRequest' = IF reqs = <<>> THEN frLastRequest
                       ELSE Some(reqs[Len(reqs)])
  /\ frLoading' = IF reqs = <<>> THEN frLoading ELSE TRUE

\* what the steps of the fixed-radius page leave alone
FixedFrame ==
  UNCHANGED <<pageVars, schedVars, now, histVars, buttonVars, detailVars,
              showGrammar, showIndependent, searchVars, frOpened>>

\* the render after setPhase, setRating or setRadius: loadSchools is a new
\* function, so the searchParams effect, which depends on it, runs again,
\* and after it the filter effect, which calls loadSchools at the centre of
\* this render
FiltersChange(f) ==
  /\ "radius" \in subscribers
  /\ f # frFilters
  /\ frChanges < MaxFilterChanges
  /\ frFilters' = f
  /\ frChanges' = frChanges + 1
  /\ frCenter' = IF EffectCenter # None THEN Val(EffectCenter) ELSE frCenter
  /\ frSearches' = frSearches \o EffectSearches(f)
  /\ SendAll(EffectRequests(f) \o <<NearbyRequest(frCenter, f)>>)
  /\ UNCHANGED <<storage, storeVars, frSchools>>
  /\ FixedFrame

frSetPhase(p) == FiltersChange([frFilters EXCEPT !.phase = p])
frSetRating(r) == FiltersChange([frFilters EXCEPT !.rating = r])
frSetRadius(k) == FiltersChange([frFilters EXCEPT !.radius = k])

\* loadSchools after its await, the request fulfilled
NearbyArrives(req, data) ==
  /\ req \in frInflight
  /\ frInflight' = frInflight \ {req}
  /\ frSchools' = enrichWithHomeDistance(data, getHome)
  /\ frLoading' = FALSE
  /\ UNCHANGED <<storage, storeVars, frIssued, frCenter, frFilters,
                 frLastRequest, frSearches, frChanges>>
  /\ FixedFrame

\* loadSchools after its await, the request rejected
NearbyFails(req) ==
  /\ req \in frInflight
  /\ frInflight' = frInflight \ {req}
  /\ frLoading' = FALSE
  /\ UNCHANGED <<storage, storeVars, frSchools, frIssued, frCenter, frFilters,
                 frLastRequest, frSearches, frChanges>>
  /\ FixedFrame

\* the sequence without its i-th element
Without(seq, i) == SubSeq(seq, 1, i - 1) \o SubSeq(seq, i + 1, Len(seq))

\* what /api/search answers to the fixed-radius page
RadiusSearchResults ==
  SearchResults \cup
    {[type |-> "name", latitude |-> 0, longitude |-> 0,
      results |-> <<SchoolDB[4], SchoolDB[2]>>]}

\* where the continuation of searchSchools(q) centres the map, if it does
SearchCenter(result) ==
  IF result.type = "postcode"
    THEN Some(<<Deg4(result.latitude), Deg4(result.longitude)>>)
  ELSE IF /\ Len(result.results) > 0
          /\ Truthy(result.results[1].latitude)
          /\ Truthy(result.results[1].longitude)
    THEN Some(<<Deg4(Val(result.results[1].latitude)),
                Deg4(Val(result.results[1].longitude))>>)
  ELSE None

\* the continuation of the i-th name search in flight: it calls the
\* loadSchools of the render that sent the search
RadiusSearchAnswered(i, result) ==
  /\ i \in 1..Len(frSearches)
  /\ frSearches' = Without(frSearches, i)
  /\ frCenter' = IF SearchCenter(result) # None
                   THEN Val(SearchCenter(result)) ELSE frCenter
  /\ SendAll(IF SearchCenter(result) # None
               THEN <<NearbyRequest(Val(SearchCenter(result)), frSearches[i])>>
               ELSE <<>>)
  /\ frSchools' = IF result.type # "postcode" /\ Len(result.results) > 0
                    THEN enrichWithHomeDistance(result.results, getHome)
                    ELSE frSchools
  /\ UNCHANGED <<storage, storeVars, frFilters, frChanges>>
  /\ FixedFrame

\* searchSchools(q) rejected: the promise has no catch, nothing is set
RadiusSearchFails(i) ==
  /\ i \in 1..Len(frSearches)
  /\ frSearches' = Without(frSearches, i)
  /\ UNCHANGED <<storage, storeVars, radiusVars, frCenter, frFilters,
                 frLoading, frInflight, frLastRequest, frChanges>>
  /\ FixedFrame

\* the fixed-radius page after its first render and the first run of its
\* effects, opened with ?lat=&lng=, with ?q= or with neither, with or
\* without a home stored; the viewport page is not mounted
InitRadius ==
  /\ storage \in {None, Some(JSONStringify(Home1))}
  /\ PageNotMounted
  /\ subscribers = {"button", "radius"}
  /\ homeState = [c \in Components |-> IF Subscribed(c) THEN getHome ELSE None]
  /\ notified = None
  /\ lastWrite = getHome
  /\ HomeButtonInit
  /\ DetailInit
  /\ TogglesInit
  /\ SearchInit
  /\ frOpened \in {"latlng", "q", "none"}
  /\ frFilters = [phase |-> "", rating |-> "", radius |-> DEFAULT_RADIUS]
  /\ frCenter = IF EffectCenter # None THEN Val(EffectCenter) ELSE DefaultCenter
  /\ frSearches = EffectSearches(frFilters)
  /\ frSchools = <<>>
  /\ frIssued = Len(EffectRequests(frFilters))
  /\ frInflight = 1..frIssued
  /\ frLastRequest = IF frIssued = 0 THEN None
                      ELSE Some(EffectRequests(frFilters)[1])
  /\ frLoading = (frIssued > 0)
  /\ frChanges = 0

NextRadius ==
  \/ \E p \in Phases : frSetPhase(p)
  \/ \E r \in Ratings : frSetRating(r)
  \/ \E k \in Radii : frSetRadius(k)
  \/ \E req \in frInflight : NearbyFails(req)
  \/ \E req \in frInflight, data \in HomeLists : NearbyArrives(req, data)
  \/ \E i \in 1..Len(frSearches) : RadiusSearchFails(i)
  \/ \E i \in 1..Len(frSearches), result \in RadiusSearchResults :
       RadiusSearchAnswered(i, result)
  \/ \E h \in Homes : SetHomeCalled(h)
  \/ handleClear

SpecRadius == InitRadius /\ [][NextRadius]_vars

\* C24: on the fixed-radius page, a step that changes phase, rating or
\* radius sends exactly one request, in that step, at the centre the page
\* holds and with the new filter values, however the page was opened
C24_FilterChangeSendsOneFetch ==
  [][frFilters' # frFilters =>
       /\ frIssued' = frIssued + 1
       /\ frLastRequest' = Some(NearbyRequest(frCenter, frFilters'))]_vars

\* ------------------------------------------- the scheduler returns to idle
\* every timer pending after the step has a request number below the cap, so
\* that the cap on requests never keeps a due timer from running
RoomForTimers == nextToken' + Cardinality(timers') <= MaxFetches + 1

\* the viewport and filter events of Next, as long as their requests fit
\* under the cap, the timers and the answers; no home is stored or changed
NextLive ==
  \/ Mount
  \/ \E b \in Viewports : handleBoundsChange(b) /\ RoomForTimers
  \/ \E t \in timers : TimerExpires(t)
  \/ \E p \in Phases : SetPhase(p) /\ RoomForTimers
  \/ \E req \in inflight, resp \in BoundsResponses : FetchSucceeds(req, resp)
  \/ \E req \in inflight : FetchFails(req)
  \/ Tick

\* a request in flight is answered or rejected
Completes ==
  \/ \E req \in inflight, resp \in BoundsResponses : FetchSucceeds(req, resp)
  \/ \E req \in inflight : FetchFails(req)

InitLive == Init /\ storage = None

\* time passes, the browser runs a timeout that is due, and every request
\* sent is answered or rejected in the end
SpecLive ==
  /\ InitLive
  /\ [][NextLive]_vars
  /\ WF_vars(Tick)
  /\ WF_vars(\E t \in timers : TimerExpires(t))
  /\ WF_vars(Completes)

\* no timer pending, no request in flight, loading off
Idle == timers = {} /\ inflight = {} /\ ~loading

\* C25: when every request sent is answered or rejected and the viewport and
\* filter events stop, the page ends up idle for good: no debounce timer
\* pending, no request in flight and loading off, whether the answers were
\* lists, too-many or errors
C25_ReturnsToIdle == <>[]Idle

\* idle after a too-many answer to the first request and the rejection of
\* the second
C25_Witness ==
  /\ Idle
  /\ nextToken = 3
  /\ lastApplied = 1
  /\ tooManySchools

====
